---- MODULE Spec2Model ----
(***************************************************************************)
(* TP-Link Tapo Cloud integration: the polling coordinator                 *)
(* (tapo_coordinator.py), the setup of a config entry (__init__.py) and    *)
(* the sensor accessors that read the coordinator's cached data            *)
(* (sensor.py).                                                            *)
(*                                                                         *)
(* One polling cycle (_async_update_data) is a coroutine: it is suspended  *)
(* at every "await hass.async_add_executor_job(op)" while op runs on an    *)
(* executor worker, so each await is one position of the cycle (pc) and    *)
(* everything between two awaits is one atomic step of the event loop.     *)
(***************************************************************************)
EXTENDS Integers, Sequences, FiniteSets, TLC

\* ------------------------------------------------------------- bounds
\* Polling cycles started in one behaviour.
MaxCycles == 3
\* Executor jobs a timed-out cycle left running on a worker, at one time.
MaxAbandoned == 2

\* ----------------------------------------------------------- const.py
COORDINATOR_DATA_KEY_NAME == "device_nickname"
COORDINATOR_DATA_KEY_DEVICEINFO == "device_info_result"
COORDINATOR_DATA_KEY_ENERGY == "energy_usage_result"

\* config_flow.py: the keys of the form (homeassistant.const).
CONF_HOST == "host"
CONF_USERNAME == "username"

\* ------------------------------------------------------ Python values
\* DataUpdateCoordinator.data is None until a cycle sets it, then a dict.
None == [py |-> "None"]
PyDict(items) == [py |-> "dict", items |-> items]
EmptyItems == [k \in {} |-> 0]
EmptyDict == PyDict(EmptyItems)
\* Python truthiness of the cached data: "if not self.coordinator.data".
Truthy(v) == v.py = "dict" /\ DOMAIN v.items # {}
\* d[k] = v on the items of a dict.
SetItem(items, k, v) == (k :> v) @@ items
\* The result of a call: a value, or an exception.
Ok(v) == [ok |-> TRUE, val |-> v]
Raise == [ok |-> FALSE, val |-> <<>>]

\* ------------------------------------------ base64.b64decode (str -> bytes)
B64Alphabet ==
  << "A","B","C","D","E","F","G","H","I","J","K","L","M","N","O","P",
     "Q","R","S","T","U","V","W","X","Y","Z","a","b","c","d","e","f",
     "g","h","i","j","k","l","m","n","o","p","q","r","s","t","u","v",
     "w","x","y","z","0","1","2","3","4","5","6","7","8","9","+","/" >>
B64Pad == "="
IsB64Char(c) == \E i \in 1..Len(B64Alphabet) : B64Alphabet[i] = c
B64Value(c) == (CHOOSE i \in 1..Len(B64Alphabet) : B64Alphabet[i] = c) - 1

\* binascii.a2b_base64 in its non-strict mode: characters outside the
\* alphabet are skipped, a pad that completes a quad ends the input, and a
\* quad left open at the end of the input is an error.
\* st = [quad_pos, leftchar, pads, out].
RECURSIVE A2bBase64(_, _, _)
A2bBase64(s, i, st) ==
  IF i > Len(s)
  THEN IF st.quad_pos # 0 THEN Raise ELSE Ok(st.out)
  ELSE
    LET c == s[i] IN
    IF c = B64Pad
    THEN IF st.quad_pos >= 2 /\ st.quad_pos + st.pads + 1 >= 4
         THEN Ok(st.out)
         ELSE A2bBase64(s, i + 1,
                [st EXCEPT !.pads = IF st.quad_pos >= 2 THEN @ + 1 ELSE @])
    ELSE IF ~IsB64Char(c)
    THEN A2bBase64(s, i + 1, st)
    ELSE
      LET v == B64Value(c) IN
      A2bBase64(s, i + 1,
        CASE st.quad_pos = 0 ->
               [quad_pos |-> 1, leftchar |-> v, pads |-> 0, out |-> st.out]
          [] st.quad_pos = 1 ->
               [quad_pos |-> 2, leftchar |-> v % 16, pads |-> 0,
                out |-> Append(st.out, st.leftchar * 4 + v \div 16)]
          [] st.quad_pos = 2 ->
               [quad_pos |-> 3, leftchar |-> v % 4, pads |-> 0,
                out |-> Append(st.out, st.leftchar * 16 + v \div 4)]
          [] st.quad_pos = 3 ->
               [quad_pos |-> 0, leftchar |-> 0, pads |-> 0,
                out |-> Append(st.out, st.leftchar * 64 + v)])

b64decode(s) ==
  A2bBase64(s, 1, [quad_pos |-> 0, leftchar |-> 0, pads |-> 0, out |-> <<>>])

\* --------------------------------------- bytes.decode("utf-8") (strict)
IsContinuation(b) == b >= 128 /\ b <= 191
\* The code points of the bytes from position i on, or an exception.
RECURSIVE Utf8Decode(_, _, _)
Utf8Decode(b, i, out) ==
  IF i > Len(b) THEN Ok(out)
  ELSE
    LET b0 == b[i]
        has(n) == i + n <= Len(b)
        cont(n) == IsContinuation(b[i + n])
    IN
    IF b0 < 128
    THEN Utf8Decode(b, i + 1, Append(out, b0))
    ELSE IF b0 >= 194 /\ b0 <= 223
    THEN IF has(1) /\ cont(1)
         THEN Utf8Decode(b, i + 2,
                Append(out, (b0 - 192) * 64 + (b[i + 1] - 128)))
         ELSE Raise
    ELSE IF b0 >= 224 /\ b0 <= 239
    THEN IF /\ has(2) /\ cont(1) /\ cont(2)
            /\ (b0 = 224 => b[i + 1] >= 160)
            /\ (b0 = 237 => b[i + 1] <= 159)
         THEN Utf8Decode(b, i + 3,
                Append(out, (b0 - 224) * 4096 + (b[i + 1] - 128) * 64
                            + (b[i + 2] - 128)))
         ELSE Raise
    ELSE IF b0 >= 240 /\ b0 <= 244
    THEN IF /\ has(3) /\ cont(1) /\ cont(2) /\ cont(3)
            /\ (b0 = 240 => b[i + 1] >= 144)
            /\ (b0 = 244 => b[i + 1] <= 143)
         THEN Utf8Decode(b, i + 4,
                Append(out, (b0 - 240) * 262144 + (b[i + 1] - 128) * 4096
                            + (b[i + 2] - 128) * 64 + (b[i + 3] - 128)))
         ELSE Raise
    ELSE Raise

\* tapo_coordinator.py: nickname = b64decode(nickname).decode("utf-8").
\* A str is the sequence of its code points.
DecodeNickname(encoded) ==
  LET raw == b64decode(encoded) IN
  IF raw.ok THEN Utf8Decode(raw.val, 1, <<>>) ELSE Raise

\* ------------------------------------------------- json.loads (str -> value)
\* The text is the sequence of its JSON tokens.
TStr(s) == [t |-> "str", s |-> s, n |-> 0]
TNum(n) == [t |-> "num", s |-> "", n |-> n]
TSym(c) == [t |-> c, s |-> "", n |-> 0]
JsonFail == [ok |-> FALSE, kind |-> "", val |-> 0, next |-> 0]

\* value := number | string | object;  object := { [pair (, pair)*] }
\* The value that starts at token i, its type and the position after it.
RECURSIVE JsonValue(_, _)
RECURSIVE JsonMembers(_, _, _)
JsonValue(toks, i) ==
  IF i > Len(toks) THEN JsonFail
  ELSE
    LET tok == toks[i] IN
    CASE tok.t = "num" ->
           [ok |-> TRUE, kind |-> "int", val |-> tok.n, next |-> i + 1]
      [] tok.t = "str" ->
           [ok |-> TRUE, kind |-> "str", val |-> tok.s, next |-> i + 1]
      [] tok.t = "{" ->
           IF i + 1 <= Len(toks) /\ toks[i + 1].t = "}"
           THEN [ok |-> TRUE, kind |-> "dict", val |-> EmptyItems, next |-> i + 2]
           ELSE JsonMembers(toks, i + 1, EmptyItems)
      [] OTHER -> JsonFail

JsonMembers(toks, i, acc) ==
  IF i + 1 > Len(toks) \/ toks[i].t # "str" \/ toks[i + 1].t # ":"
  THEN JsonFail
  ELSE
    LET v == JsonValue(toks, i + 2) IN
    IF ~v.ok \/ v.next > Len(toks) THEN JsonFail
    ELSE
      LET acc2 == SetItem(acc, toks[i].s, v.val) IN
      CASE toks[v.next].t = "}" ->
             [ok |-> TRUE, kind |-> "dict", val |-> acc2, next |-> v.next + 1]
        [] toks[v.next].t = "," -> JsonMembers(toks, v.next + 1, acc2)
        [] OTHER -> JsonFail

\* json.loads(text): the whole text must be one value.
json_loads(toks) ==
  LET r == JsonValue(toks, 1) IN
  IF r.ok /\ r.next = Len(toks) + 1 THEN r ELSE JsonFail

\* tapo_coordinator.py: json.loads(energy_usage)["result"]: the "result"
\* member of the parsed reply, or an exception (JSONDecodeError, KeyError,
\* TypeError when the reply is no object).
EnergyResult(text) ==
  LET parsed == json_loads(text) IN
  IF parsed.ok /\ parsed.kind = "dict" /\ "result" \in DOMAIN parsed.val
  THEN Ok(parsed.val["result"])
  ELSE Raise

\* ------------------------------------ the device, as the session sees it
\* PyP100: the plug's model name; "P110" is the metering-capable one.
Models == {"P100", "P105", "P110"}

\* Nicknames as the device delivers them (base64 text).
NicknameNames == {"Plug", "Lamp", "bad_padding", "bad_utf8"}
EncodedNickname(name) ==
  CASE name = "Plug" -> << "U","G","x","1","Z","w","=","=" >>
    [] name = "Lamp" -> << "T","G","F","t","c","A","=","=" >>
    [] name = "bad_padding" -> << "U","G","x","1","Z" >>
    [] name = "bad_utf8" -> << "/","w","=","=" >>

\* What p1xx.getDeviceInfo can do: raise, or return the parsed reply.
DeviceInfoReplyNames == {"raise", "no_result"} \cup NicknameNames
DeviceInfoReply(name, model) ==
  CASE name = "raise" -> Raise
    [] name = "no_result" -> Ok([error_code |-> 0 - 1])
    [] OTHER ->
         Ok([error_code |-> 0,
             result |-> [nickname |-> EncodedNickname(name),
                         device_id |-> "D1",
                         fw_ver |-> "1.0.7",
                         model |-> model,
                         type |-> "SMART.TAPOPLUG",
                         device_on |-> TRUE]])

\* What p1xx.getEnergyUsage can do: raise, or return the reply text.
EnergyReplyNames == {"raise", "not_json", "no_result", "e120", "e7", "zero"}
EnergyText(today_energy, current_power) ==
  << TSym("{"), TStr("result"), TSym(":"),
       TSym("{"), TStr("today_energy"), TSym(":"), TNum(today_energy),
       TSym(","), TStr("current_power"), TSym(":"), TNum(current_power),
       TSym("}"),
     TSym(","), TStr("error_code"), TSym(":"), TNum(0), TSym("}") >>
EnergyReply(name) ==
  CASE name = "raise" -> Raise
    [] name = "not_json" -> Ok(<< TSym("{"), TStr("result"), TSym(":") >>)
    [] name = "no_result" ->
         Ok(<< TSym("{"), TStr("error_code"), TSym(":"), TNum(0 - 1501),
               TSym("}") >>)
    [] name = "e120" -> Ok(EnergyText(120, 2500))
    [] name = "e7" -> Ok(EnergyText(7, 1500))
    [] name = "zero" -> Ok(EnergyText(0, 0))

\* ----------------------------------------------------------------- state
VARIABLES
  flow_pc,                \* the config flow: "form", the operation that
                          \* validate_input awaits, or "created"
  user_input,             \* what the user submitted last
  errors,                 \* async_step_user's "errors", shown with the form
  device_name,            \* validate_input's local "device_name"
  entry_title,            \* the title of the entry that the flow created
  entry_model,            \* entry.data["model"], written by the config flow
  phase,                  \* the config entry: "not_loaded", "first_refresh",
                          \* "setup_retry" (ConfigEntryNotReady), "loaded"
  registered,             \* hass.data[DOMAIN][entry.entry_id] holds the coordinator
  platform,               \* the sensor platform: "none", "pending", "set_up"
  entities,               \* the sensors handed to async_add_entities
  _p1xx,                  \* the class of the coordinator's session object
  _connected,             \* TapoDataUpdateCoordinator._connected
  coordinator_data,       \* TapoDataUpdateCoordinator.data (self.coordinator.data)
  pc,                     \* the cycle: "idle", or the operation it awaits
  data,                   \* _async_update_data's local dict "data" (its items)
  device_info,            \* _async_update_data's local "device_info"
  _name,                  \* for each sensor object, its _name
  _native_value,          \* for each sensor object, its _native_value
  session_valid,          \* the session object holds a token the plug accepts
  device_ok,              \* the plug and the network have stopped failing
  abandoned,              \* executor jobs of the coordinator's timed-out
                          \* cycles that are still running on their workers
  \* history of the cycles, read by the properties only
  cycle,                  \* cycles started so far
  connected_at_start,     \* _connected when the current/last cycle began
  calls,                  \* device operations the current/last cycle invoked
  outcome,                \* how the coordinator's last finished cycle ended
  failure,                \* the step that failed in the current/last cycle
  energy_reply,           \* what getEnergyUsage answered in the current/last cycle
  data_cycle,             \* for each key of data, the cycle that wrote it
  coordinator_data_cycle, \* for each key of coordinator_data, likewise
  \* history of the config flow, read by the properties only
  flow_calls,             \* operations invoked for the last submitted input
  flow_failure,           \* the step of validate_input that failed, or "none"
  flow_raised,            \* the exception that validate_input raised, or "none"
  flow_list_failed        \* getDeviceList raised for the last submitted input

vars ==
  << entry_model, phase, registered, platform, entities, _p1xx, _connected,
     coordinator_data, pc, data, device_info, energy_reply, _name,
     _native_value, session_valid, device_ok, abandoned, cycle,
     connected_at_start, calls, outcome, failure, data_cycle,
     coordinator_data_cycle, flow_pc, user_input, errors, device_name,
     entry_title, flow_calls, flow_failure, flow_raised, flow_list_failed >>

Operations == {"handshake", "login", "getDeviceInfo", "getEnergyUsage"}
SensorKinds == {"energy_today", "power"}
NoDeviceInfo == [error_code |-> 0]
EmptyStr == << >>

\* __init__.py: the session class chosen from the entry's model.
SessionClass(device_model) ==
  IF device_model = "P110" THEN "P110" ELSE "P100"

\* Mutant of IsP110: the energy query is not gated on the session class.
IsP110Ungated(p1xx) == TRUE

\* tapo_coordinator.py: isinstance(self._p1xx, PyP110.P110).
IsP110(p1xx) == p1xx = "P110"

\* Mutant of NeedsSession: the session is set up in every cycle.
NeedsSessionAlways(connected) == TRUE

\* tapo_coordinator.py: "if self._connected is False": the session has to
\* be set up before the queries.
NeedsSession(connected) == connected = FALSE

\* Mutant of available: any cached data makes the sensor available.
availableWithAnyData(d) == DOMAIN d.items # {}

\* sensor.py: _TapoPlugSensorBase.available. The sensors are built only
\* after the first refresh has succeeded, when the data is a dict ("in" on
\* None would raise TypeError).
available(d) == COORDINATOR_DATA_KEY_ENERGY \in DOMAIN d.items

\* Mutant of _is_native_value_access_ok: the availability test is inverted.
_is_native_value_access_ok_inverted(d) ==
  IF ~Truthy(d) THEN FALSE
  ELSE IF available(d) THEN FALSE
  ELSE IF COORDINATOR_DATA_KEY_ENERGY \notin DOMAIN d.items THEN FALSE
  ELSE TRUE

\* sensor.py: _TapoPlugSensorBase._is_native_value_access_ok.
_is_native_value_access_ok(d) ==
  IF ~Truthy(d) THEN FALSE
  ELSE IF ~available(d) THEN FALSE
  ELSE IF COORDINATOR_DATA_KEY_ENERGY \notin DOMAIN d.items THEN FALSE
  ELSE TRUE

\* What native_value returns: None, or a number.
Absent == [is_none |-> TRUE, value |-> 0]
Value(v) == [is_none |-> FALSE, value |-> v]

\* Mutant of DivideBy1000: the milliwatts are returned undivided.
DivideBy1000Undivided(milli_watt) ==
  [units |-> milli_watt, thousandths |-> 0]

\* milli_watt / 1000.000, as the decimal units.thousandths (milli_watt >= 0).
DivideBy1000(milli_watt) ==
  [units |-> milli_watt \div 1000, thousandths |-> milli_watt % 1000]

\* sensor.py: TapoPlugEnergyTodaySensor.native_value.
TapoPlugEnergyTodaySensor_native_value(d) ==
  IF _is_native_value_access_ok(d)
  THEN Value(d.items[COORDINATOR_DATA_KEY_ENERGY]["today_energy"])
  ELSE Absent

\* sensor.py: TapoPlugCurrentPowerConsumptionSensor.native_value.
TapoPlugCurrentPowerConsumptionSensor_native_value(d) ==
  IF _is_native_value_access_ok(d)
  THEN Value(DivideBy1000(d.items[COORDINATOR_DATA_KEY_ENERGY]["current_power"]))
  ELSE Absent

\* const.py: the name templates, as code points ("{}:Energy today" and
\* "{}:Power consumption").
SENSOR_NAME_ENERGY_TODAY ==
  << 123, 125, 58, 69, 110, 101, 114, 103, 121, 32, 116, 111, 100, 97, 121 >>
SENSOR_NAME_POWER ==
  << 123, 125, 58, 80, 111, 119, 101, 114, 32, 99, 111, 110, 115, 117, 109,
     112, 116, 105, 111, 110 >>

\* str.format with one positional argument: the text up to the replacement
\* field "{}" is copied, the field is replaced by the argument, and the
\* rest is copied (the templates hold one field and no escaped brace).
RECURSIVE Format(_, _, _)
Format(template, arg, i) ==
  IF i > Len(template) THEN << >>
  ELSE IF i < Len(template) /\ template[i] = 123 /\ template[i + 1] = 125
       THEN arg \o Format(template, << >>, i + 2)
       ELSE << template[i] >> \o Format(template, arg, i + 1)

\* Mutant of _generate_name: the template is returned as it is.
_generate_name_unformatted(d, sensor_name) ==
  IF ~Truthy(d) THEN Absent ELSE Value(sensor_name)

\* sensor.py: _TapoPlugSensorBase._generate_name.
_generate_name(d, sensor_name) ==
  IF ~Truthy(d) THEN Absent
  ELSE Value(Format(sensor_name, d.items[COORDINATOR_DATA_KEY_NAME], 1))

\* sensor.py: the template that each sensor class passes to _generate_name.
SensorNameTemplate(s) ==
  IF s = "energy_today" THEN SENSOR_NAME_ENERGY_TODAY ELSE SENSOR_NAME_POWER

\* Mutant of name: a name that cannot be generated empties self._name.
name_forgetting(d, s, _name_s) ==
  LET super_name == _generate_name(d, SensorNameTemplate(s)) IN
  IF super_name.is_none THEN << >> ELSE super_name.value

\* sensor.py: the "name" property of both classes: a generated name
\* replaces self._name, and self._name is returned.
name(d, s, _name_s) ==
  LET super_name == _generate_name(d, SensorNameTemplate(s)) IN
  IF super_name.is_none \/ super_name.value = << >>
  THEN _name_s
  ELSE super_name.value

\* sensor.py: what the "native_value" property of sensor s returns.
native_value(d, s) ==
  IF s = "energy_today"
  THEN TapoPlugEnergyTodaySensor_native_value(d)
  ELSE TapoPlugCurrentPowerConsumptionSensor_native_value(d)

\* tapo_coordinator.py: the "device_info" property.
DeviceInfo(d) ==
  IF ~Truthy(d) THEN Absent
  ELSE Value([name |-> d.items[COORDINATOR_DATA_KEY_NAME],
              identifiers |->
                d.items[COORDINATOR_DATA_KEY_DEVICEINFO]["device_id"],
              sw_version |-> d.items[COORDINATOR_DATA_KEY_DEVICEINFO]["fw_ver"],
              model |-> d.items[COORDINATOR_DATA_KEY_DEVICEINFO]["model"]])

Init ==
  /\ flow_pc = "form"
  /\ user_input = None
  /\ errors = EmptyItems
  /\ device_name = EmptyStr
  /\ entry_title = << >>
  /\ flow_calls = << >>
  /\ flow_failure = "none"
  /\ flow_raised = "none"
  /\ flow_list_failed = FALSE
  /\ entry_model = "none"
  /\ phase = "not_loaded"
  /\ registered = FALSE
  /\ platform = "none"
  /\ entities = {}
  /\ _p1xx = "P100"
  /\ _connected = FALSE
  /\ coordinator_data = None
  /\ pc = "idle"
  /\ data = EmptyItems
  /\ device_info = NoDeviceInfo
  /\ energy_reply = "none"
  /\ _name = [s \in SensorKinds |-> EmptyStr]
  /\ _native_value = [s \in SensorKinds |-> Absent]
  /\ session_valid = FALSE
  /\ device_ok = FALSE
  /\ abandoned = 0
  /\ cycle = 0
  /\ connected_at_start = FALSE
  /\ calls = << >>
  /\ outcome = "none"
  /\ failure = "none"
  /\ data_cycle = EmptyItems
  /\ coordinator_data_cycle = EmptyItems

\* -------------------------------------------- _async_update_data, by step
\* The cycle hands op to the executor and awaits it.
Invoke(op) ==
  /\ pc' = op
  /\ calls' = Append(calls, op)

\* Mutant of NextCall: the device info is queried before the login.
NextCallSkipsLogin(op) ==
  CASE op = "handshake" -> "getDeviceInfo"
    [] op = "login" -> "getDeviceInfo"
    [] op = "getDeviceInfo" -> "getEnergyUsage"

\* The operation the straight-line code invokes after op has returned.
NextCall(op) ==
  CASE op = "handshake" -> "login"
    [] op = "login" -> "getDeviceInfo"
    [] op = "getDeviceInfo" -> "getEnergyUsage"

\* Mutant of DuringCycle: the cycle fills self.data in place.
WriteThrough(cached, local) ==
  PyDict(local @@ (IF cached.py = "dict" THEN cached.items ELSE EmptyItems))

\* What consumers find in self.data while the cycle fills its local dict:
\* the local dict is a fresh one, self.data is left as it was.
DuringCycle(cached, local) == cached

\* Mutant of WithDeviceInfo: the identity is not stored.
WithNicknameOnly(items, nickname, result) ==
  SetItem(items, COORDINATOR_DATA_KEY_NAME, nickname)

\* Mutant of WithEnergy: the energy result is not stored.
WithoutEnergy(items, result) == items

\* data[NAME] = nickname; data[DEVICEINFO] = device_info["result"].
WithDeviceInfo(items, nickname, result) ==
  SetItem(SetItem(items, COORDINATOR_DATA_KEY_NAME, nickname),
          COORDINATOR_DATA_KEY_DEVICEINFO, result)

\* data[ENERGY] = energy_usage["result"].
WithEnergy(items, result) ==
  SetItem(items, COORDINATOR_DATA_KEY_ENERGY, result)

\* The keys of items, each tagged with the cycle that wrote it.
Tagged(items, tags, c) ==
  [k \in DOMAIN items |-> IF k \in DOMAIN tags THEN tags[k] ELSE c]

\* The tags of the keys that the cached value v still holds.
TagsOf(v, tags) ==
  IF v.py = "dict"
  THEN [k \in DOMAIN v.items \cap DOMAIN tags |-> tags[k]]
  ELSE EmptyItems

\* Mutant of SetupContinues: the setup goes on whatever the first refresh
\* did (async_refresh in place of async_config_entry_first_refresh).
SetupContinuesAlways(success) ==
  IF phase = "first_refresh"
  THEN phase' = "loaded" /\ registered' = TRUE /\ platform' = "pending"
  ELSE UNCHANGED << phase, registered, platform >>

\* The first refresh decides the setup of the entry (__init__.py): on
\* success the coordinator is stored and the platforms are set up, on
\* failure async_config_entry_first_refresh raises ConfigEntryNotReady.
SetupContinues(success) ==
  IF phase = "first_refresh"
  THEN IF success
       THEN phase' = "loaded" /\ registered' = TRUE /\ platform' = "pending"
       ELSE phase' = "setup_retry" /\ UNCHANGED << registered, platform >>
  ELSE UNCHANGED << phase, registered, platform >>

\* "return data": DataUpdateCoordinator stores the returned dict in self.data.
ReturnData(items, tags) ==
  /\ coordinator_data' = PyDict(items)
  /\ coordinator_data_cycle' = tags
  /\ pc' = "idle"
  /\ outcome' = "returned"
  /\ SetupContinues(TRUE)

\* Mutant of ExceptBlock: the session flag survives the failure.
ExceptBlockKeepsSession ==
  /\ UNCHANGED _connected
  /\ data' = EmptyItems
  /\ coordinator_data' = EmptyDict

\* Mutant of ExceptBlock: the cached data survives the failure.
ExceptBlockKeepsData ==
  /\ _connected' = FALSE
  /\ data' = EmptyItems
  /\ UNCHANGED coordinator_data

\* The except block: forget the session and the data, raise UpdateFailed.
ExceptBlock ==
  /\ _connected' = FALSE
  /\ data' = EmptyItems
  /\ coordinator_data' = EmptyDict

\* Mutant of Fails: the except block does not raise, and the "return data"
\* after it hands the emptied dict to the caller.
FailsWithoutRaise(step) ==
  /\ ExceptBlock
  /\ data_cycle' = EmptyItems
  /\ coordinator_data_cycle' = TagsOf(coordinator_data', coordinator_data_cycle)
  /\ pc' = "idle"
  /\ outcome' = "returned"
  /\ failure' = step
  /\ SetupContinues(TRUE)
  /\ UNCHANGED calls

\* An exception reaches the except block; step names what failed.
Fails(step) ==
  /\ ExceptBlock
  /\ data_cycle' = EmptyItems
  /\ coordinator_data_cycle' = TagsOf(coordinator_data', coordinator_data_cycle)
  /\ pc' = "idle"
  /\ outcome' = "UpdateFailed"
  /\ failure' = step
  /\ SetupContinues(FALSE)
  /\ UNCHANGED calls

\* The coroutine up to its first await.
BeginUpdate(connected) ==
  /\ cycle < MaxCycles
  /\ cycle' = cycle + 1
  /\ connected_at_start' = connected
  /\ failure' = "none"
  /\ data' = EmptyItems
  /\ data_cycle' = EmptyItems
  /\ device_info' = NoDeviceInfo
  /\ energy_reply' = "none"
  /\ LET op == IF NeedsSession(connected) THEN "handshake" ELSE "getDeviceInfo"
     IN pc' = op /\ calls' = << op >>

\* The cycle goes on to await op; self.data stays what it was.
Continues(op) ==
  /\ Invoke(op)
  /\ coordinator_data' = DuringCycle(coordinator_data, data')
  /\ coordinator_data_cycle' =
       TagsOf(coordinator_data',
              DuringCycle(PyDict(coordinator_data_cycle), data_cycle').items)
  /\ UNCHANGED << outcome, failure, phase, registered, platform >>

\* Mutant of OnTimeout: the timeout is swallowed by the context manager and
\* the code after the "async with" block returns the local dict.
TimeoutFallsThrough ==
  /\ ReturnData(data, data_cycle)
  /\ failure' = "timeout"
  /\ UNCHANGED << _connected, data, data_cycle, calls >>

\* The cycle budget (async_timeout.timeout(10)) runs out while the cycle
\* awaits a job: the await is cancelled, the context manager raises
\* asyncio.TimeoutError, and the except block catches it.
OnTimeout == Fails("timeout")

\* ------------------------------------------------- the plug and the network
\* What the plug can answer to an operation. A query is answered only to a
\* session whose login it accepted; once the plug and the network have
\* stopped failing, every operation is answered, and answered well.
SessionReplies == IF device_ok THEN {TRUE} ELSE BOOLEAN

DeviceInfoReplies ==
  IF ~session_valid THEN {"raise", "no_result"}
  ELSE IF device_ok THEN {"Plug", "Lamp"}
  ELSE DeviceInfoReplyNames

EnergyReplies ==
  IF ~session_valid THEN {"raise", "no_result"}
  ELSE IF device_ok THEN {"e120", "e7", "zero"}
  ELSE EnergyReplyNames

\* Mutant of SessionFlagAfter: the flag is set once the handshake is done.
SessionFlagAfterHandshake(op, flag) == TRUE

\* self._connected = True follows the login; no other step of the try
\* block writes the flag.
SessionFlagAfter(op, flag) == IF op = "login" THEN TRUE ELSE flag

\* The variables that no step of a cycle writes.
sensor_fields == << _name, _native_value >>

\* ------------------------------------------------------- config_flow.py
\* What the user can type into the form (the password is not looked at).
Hosts == { << >>, << "t", "p" >>, << "t", "p", "1" >> }
Usernames == { << >>, << "u" >> }

\* The operations that validate_input hands to the executor.
FlowOperations ==
  {"getDeviceList", "handshake", "login", "getDeviceName", "getDeviceInfo"}

\* The operation that validate_input awaits after op.
NextFlowCall(op) ==
  CASE op = "getDeviceList" -> "handshake"
    [] op = "handshake" -> "login"
    [] op = "login" -> "getDeviceName"
    [] op = "getDeviceName" -> "getDeviceInfo"

\* Mutant of FlowRaises: a failure of getDeviceList ends the validation.
FlowRaisesOnDeviceList(op) ==
  CASE op = "getDeviceList" -> "CannotConnect"
    [] op = "handshake" -> "CannotConnect"
    [] op = "login" -> "InvalidAuth"
    [] op = "getDeviceName" -> "CannotCommunicate"
    [] op = "getDeviceInfo" -> "CannotCommunicate"

\* validate_input: what the except block of each operation raises; the one
\* of getDeviceList raises nothing.
FlowRaises(op) ==
  CASE op = "getDeviceList" -> "none"
    [] op = "handshake" -> "CannotConnect"
    [] op = "login" -> "InvalidAuth"
    [] op = "getDeviceName" -> "CannotCommunicate"
    [] op = "getDeviceInfo" -> "CannotCommunicate"

\* async_step_user: the entry of "errors" that each except clause writes.
FlowError(raised) ==
  CASE raised = "InvalidHost" -> (CONF_HOST :> "invalid_host")
    [] raised = "InvalidUsername" -> (CONF_USERNAME :> "invalid_username")
    [] raised = "CannotConnect" -> (CONF_HOST :> "cannot_connect")
    [] raised = "InvalidAuth" -> (CONF_USERNAME :> "invalid_auth")
    [] raised = "CannotCommunicate" -> (CONF_HOST :> "cannot_communicate")
    [] OTHER -> ("base" :> "unknown_error")

\* validate_input: len(host) < 3.
HostTooShort(host) == Len(host) < 3

\* validate_input: len(login) < 1.
UsernameTooShort(login) == Len(login) < 1

\* The variables that the config flow leaves alone.
integration_vars ==
  << phase, registered, platform, entities, _p1xx, _connected,
     coordinator_data, pc, data, device_info, energy_reply, _name,
     _native_value, session_valid, device_ok, abandoned, cycle,
     connected_at_start, calls, outcome, failure, data_cycle,
     coordinator_data_cycle >>

\* The variables of the config flow.
flow_vars ==
  << flow_pc, flow_calls, flow_failure, flow_raised, flow_list_failed, errors,
     user_input, device_name, entry_title >>

\* validate_input awaits op.
FlowInvoke(op) ==
  /\ flow_pc' = op
  /\ flow_calls' = Append(flow_calls, op)

\* validate_input raises; async_step_user catches the exception and shows
\* the form again, with the error.
FlowFails(step, raised) ==
  /\ flow_pc' = "form"
  /\ flow_failure' = step
  /\ flow_raised' = raised
  /\ errors' = FlowError(raised)

\* The operation that validate_input awaits has returned or has raised.
FlowJobDone(op, ok) ==
  IF ok \/ FlowRaises(op) = "none"
  THEN /\ FlowInvoke(NextFlowCall(op))
       /\ UNCHANGED << flow_failure, flow_raised, errors >>
  ELSE /\ FlowFails(op, FlowRaises(op))
       /\ UNCHANGED flow_calls

\* async_step_user with the user's input, validate_input up to its first
\* await: the host and the username are looked at before anything is sent.
async_step_user ==
  /\ flow_pc = "form"
  /\ \E host \in Hosts, login \in Usernames :
       /\ user_input' = [host |-> host, username |-> login]
       /\ IF HostTooShort(host)
          THEN FlowFails("host", "InvalidHost") /\ flow_calls' = << >>
          ELSE IF UsernameTooShort(login)
          THEN FlowFails("username", "InvalidUsername") /\ flow_calls' = << >>
          ELSE /\ flow_pc' = "getDeviceList"
               /\ flow_calls' = << "getDeviceList" >>
               /\ flow_failure' = "none"
               /\ flow_raised' = "none"
               /\ errors' = EmptyItems
  /\ flow_list_failed' = FALSE
  /\ device_name' = EmptyStr
  /\ UNCHANGED << entry_model, entry_title, integration_vars >>

\* PyP100.getDeviceList returns or raises; either way the test connection
\* is set up next.
flow_getDeviceList_done ==
  /\ flow_pc = "getDeviceList"
  /\ \E ok \in SessionReplies :
       /\ FlowJobDone("getDeviceList", ok)
       /\ flow_list_failed' = ~ok
  /\ UNCHANGED << user_input, device_name, entry_model, entry_title,
                  integration_vars >>

\* p100.handshake returns or raises.
flow_handshake_done ==
  /\ flow_pc = "handshake"
  /\ \E ok \in SessionReplies : FlowJobDone("handshake", ok)
  /\ UNCHANGED << flow_list_failed, user_input, device_name, entry_model,
                  entry_title, integration_vars >>

\* p100.login returns or raises.
flow_login_done ==
  /\ flow_pc = "login"
  /\ \E ok \in SessionReplies : FlowJobDone("login", ok)
  /\ UNCHANGED << flow_list_failed, user_input, device_name, entry_model,
                  entry_title, integration_vars >>

\* p100.getDeviceName returns the name or raises.
flow_getDeviceName_done ==
  /\ flow_pc = "getDeviceName"
  /\ \E ok \in SessionReplies :
       /\ FlowJobDone("getDeviceName", ok)
       /\ device_name' = IF ok THEN "Plug" ELSE device_name
  /\ UNCHANGED << flow_list_failed, user_input, entry_model, entry_title,
                  integration_vars >>

\* p100.getDeviceInfo returns or raises, and the model is read from the
\* reply; then validate_input returns and async_step_user creates the
\* entry, with the model added to its data.
flow_getDeviceInfo_done ==
  /\ flow_pc = "getDeviceInfo"
  /\ \E r \in (IF device_ok THEN {} ELSE {"raise", "no_result"}) \cup Models :
       LET reply == IF r \in Models
                    THEN DeviceInfoReply("Plug", r)
                    ELSE DeviceInfoReply(r, "P100")
       IN
       IF reply.ok /\ "result" \in DOMAIN reply.val
       THEN /\ flow_pc' = "created"
            /\ entry_model' = reply.val["result"]["model"]
            /\ entry_title' =
                 << reply.val["result"]["model"], " ", device_name >>
            /\ UNCHANGED << flow_calls, flow_failure, flow_raised, errors >>
       ELSE /\ FlowFails("getDeviceInfo", FlowRaises("getDeviceInfo"))
            /\ UNCHANGED << flow_calls, entry_model, entry_title >>
  /\ UNCHANGED << flow_list_failed, user_input, device_name,
                  integration_vars >>

\* ------------------------------------------------------------- actions
\* __init__.py async_setup_entry, up to the await of the first refresh: a
\* new session object and a new coordinator, whose first cycle begins.
\* After ConfigEntryNotReady the setup is tried again.
async_setup_entry ==
  /\ flow_pc = "created"
  /\ phase \in {"not_loaded", "setup_retry"}
  /\ pc = "idle"
  /\ phase' = "first_refresh"
  /\ _p1xx' = SessionClass(entry_model)
  /\ session_valid' = FALSE
  /\ _connected' = FALSE
  /\ coordinator_data' = None
  /\ coordinator_data_cycle' = EmptyItems
  /\ outcome' = "none"
  /\ abandoned' = 0
  /\ BeginUpdate(FALSE)
  /\ UNCHANGED << flow_vars, entry_model, registered, platform, entities, device_ok,
                  sensor_fields >>

\* A refresh of the loaded entry's coordinator (the interval timer or a
\* requested refresh) calls update_method = _async_update_data. Refreshes
\* of one coordinator do not overlap, and any number of them may follow
\* one another, whether or not sensors were added.
async_refresh ==
  /\ phase = "loaded"
  /\ pc = "idle"
  /\ BeginUpdate(_connected)
  /\ UNCHANGED << flow_vars, entry_model, phase, registered, platform, entities, _p1xx,
                  _connected, coordinator_data, coordinator_data_cycle,
                  outcome, abandoned, session_valid, device_ok,
                  sensor_fields >>

\* p1xx.handshake returns or raises.
handshake_done ==
  /\ pc = "handshake"
  /\ \E ok \in SessionReplies :
       IF ok
       THEN /\ session_valid' = FALSE
            /\ _connected' = SessionFlagAfter("handshake", _connected)
            /\ UNCHANGED << data, data_cycle >>
            /\ Continues(NextCall("handshake"))
       ELSE Fails("handshake") /\ UNCHANGED session_valid
  /\ UNCHANGED << flow_vars, entry_model, entities, _p1xx, device_info, energy_reply,
                  abandoned, cycle, connected_at_start, device_ok,
                  sensor_fields >>

\* p1xx.login returns or raises.
login_done ==
  /\ pc = "login"
  /\ \E ok \in SessionReplies :
       IF ok
       THEN /\ session_valid' = TRUE
            /\ _connected' = SessionFlagAfter("login", _connected)
            /\ UNCHANGED << data, data_cycle >>
            /\ Continues(NextCall("login"))
       ELSE Fails("login") /\ UNCHANGED session_valid
  /\ UNCHANGED << flow_vars, entry_model, entities, _p1xx, device_info, energy_reply,
                  abandoned, cycle, connected_at_start, device_ok,
                  sensor_fields >>

\* p1xx.getDeviceInfo returns or raises; the nickname is decoded and the
\* identity stored; a P100 cycle returns here.
getDeviceInfo_done ==
  /\ pc = "getDeviceInfo"
  /\ \E r \in DeviceInfoReplies :
       LET reply == DeviceInfoReply(r, entry_model) IN
       IF ~reply.ok
       THEN Fails("getDeviceInfo") /\ UNCHANGED device_info
       ELSE
         /\ device_info' = reply.val
         /\ IF "result" \notin DOMAIN reply.val
            THEN Fails("device_info")
            ELSE
              LET result == reply.val["result"]
                  nickname == DecodeNickname(result["nickname"])
              IN
              IF ~nickname.ok
              THEN Fails("nickname")
              ELSE
                LET items == WithDeviceInfo(data, nickname.val, result)
                    tags == Tagged(items, data_cycle, cycle)
                IN
                /\ data' = items
                /\ data_cycle' = tags
                /\ UNCHANGED _connected
                /\ IF IsP110(_p1xx)
                   THEN Continues(NextCall("getDeviceInfo"))
                   ELSE ReturnData(items, tags) /\ UNCHANGED << calls, failure >>
  /\ UNCHANGED << flow_vars, entry_model, entities, _p1xx, energy_reply, abandoned, cycle,
                  connected_at_start, session_valid, device_ok,
                  sensor_fields >>

\* p1xx.getEnergyUsage returns or raises; the reply is parsed and its
\* result stored; the cycle returns.
getEnergyUsage_done ==
  /\ pc = "getEnergyUsage"
  /\ \E r \in EnergyReplies :
       LET reply == EnergyReply(r) IN
       /\ energy_reply' = r
       /\ IF ~reply.ok
          THEN Fails("getEnergyUsage")
          ELSE
            LET result == EnergyResult(reply.val) IN
            IF ~result.ok
            THEN Fails("energy_usage")
            ELSE
              LET items == WithEnergy(data, result.val)
                  tags == Tagged(items, data_cycle, cycle)
              IN
              /\ data' = items
              /\ data_cycle' = tags
              /\ ReturnData(items, tags)
              /\ UNCHANGED << _connected, calls, failure >>
  /\ UNCHANGED << flow_vars, entry_model, entities, _p1xx, device_info, abandoned, cycle,
                  connected_at_start, session_valid, device_ok,
                  sensor_fields >>

\* The cycle's timeout fires while a job is awaited; the job itself keeps
\* running on its executor worker.
timeout ==
  /\ pc \in Operations
  /\ ~device_ok
  /\ abandoned < MaxAbandoned
  /\ abandoned' = abandoned + 1
  /\ OnTimeout
  /\ UNCHANGED << flow_vars, entry_model, entities, _p1xx, device_info, energy_reply,
                  cycle, connected_at_start, session_valid, device_ok,
                  sensor_fields >>

\* A job that a timed-out cycle left behind ends; nobody awaits its result.
abandoned_job_ends ==
  /\ abandoned > 0
  /\ abandoned' = abandoned - 1
  /\ UNCHANGED << flow_vars, entry_model, phase, registered, platform, entities, _p1xx,
                  _connected, coordinator_data, pc, data, device_info,
                  energy_reply, cycle, connected_at_start, calls, outcome,
                  failure, data_cycle, coordinator_data_cycle, session_valid,
                  device_ok, sensor_fields >>

\* The plug drops the session (it expires, or the plug restarts): the token
\* that the session object holds is no longer accepted.
session_expires ==
  /\ session_valid
  /\ ~device_ok
  /\ session_valid' = FALSE
  /\ UNCHANGED << flow_vars, entry_model, phase, registered, platform, entities, _p1xx,
                  _connected, coordinator_data, pc, data, device_info,
                  energy_reply, abandoned, cycle, connected_at_start, calls,
                  outcome, failure, data_cycle, coordinator_data_cycle,
                  device_ok, sensor_fields >>

\* The plug and the network stop failing, for good, while cycles are still
\* to come.
device_recovers ==
  /\ ~device_ok
  /\ cycle + 1 < MaxCycles
  /\ device_ok' = TRUE
  /\ UNCHANGED << flow_vars, entry_model, phase, registered, platform, entities, _p1xx,
                  _connected, coordinator_data, pc, data, device_info,
                  energy_reply, abandoned, cycle, connected_at_start, calls,
                  outcome, failure, data_cycle, coordinator_data_cycle,
                  session_valid, sensor_fields >>

\* sensor.py async_setup_entry: both sensors are built on the registered
\* coordinator and those that are available are added.
sensor_async_setup_entry ==
  /\ platform = "pending"
  /\ registered
  /\ platform' = "set_up"
  /\ entities' = { s \in SensorKinds : available(coordinator_data) }
  /\ _name' = [s \in SensorKinds |-> EmptyStr]
  /\ _native_value' = [s \in SensorKinds |-> Absent]
  /\ UNCHANGED << flow_vars, entry_model, phase, registered, _p1xx, _connected,
                  coordinator_data, pc, data, device_info, energy_reply,
                  abandoned, cycle, connected_at_start, calls, outcome,
                  failure, data_cycle, coordinator_data_cycle, session_valid,
                  device_ok >>

\* __init__.py async_unload_entry, between two cycles: when the platforms
\* unload, the coordinator is popped from hass.data.
async_unload_entry ==
  /\ phase = "loaded"
  /\ platform = "set_up"
  /\ pc = "idle"
  /\ \E unload_ok \in BOOLEAN :
       IF unload_ok
       THEN /\ registered' = FALSE
            /\ phase' = "not_loaded"
            /\ platform' = "none"
            /\ entities' = {}
            /\ _name' = [s \in SensorKinds |-> EmptyStr]
            /\ _native_value' = [s \in SensorKinds |-> Absent]
       ELSE UNCHANGED << registered, phase, platform, entities,
                         sensor_fields >>
  /\ UNCHANGED << flow_vars, entry_model, _p1xx, _connected, coordinator_data, pc, data,
                  device_info, energy_reply, abandoned, cycle,
                  connected_at_start, calls, outcome, failure, data_cycle,
                  coordinator_data_cycle, session_valid, device_ok >>

\* ----------------------------------------------------------- accessors
\* What a call of an accessor leaves as it was: everything but the fields
\* of the sensor objects.
accessor_frame ==
  << flow_vars, entry_model, phase, registered, platform, entities, _p1xx, _connected,
     coordinator_data, pc, data, device_info, energy_reply, abandoned, cycle,
     connected_at_start, calls, outcome, failure, data_cycle,
     coordinator_data_cycle, session_valid, device_ok >>

\* Home Assistant reads "available" of a sensor that was added.
sensor_available ==
  /\ \E s \in entities : available(coordinator_data) \in BOOLEAN
  /\ UNCHANGED << accessor_frame, sensor_fields >>

\* Home Assistant reads "name" of a sensor that was added.
sensor_name ==
  /\ \E s \in entities :
       _name' = [_name EXCEPT ![s] = name(coordinator_data, s, _name[s])]
  /\ UNCHANGED << accessor_frame, _native_value >>

\* Mutant of sensor_native_value: the reading is taken out of the cached
\* snapshot (data.pop in place of data[...]).
sensor_native_value_popping ==
  /\ \E s \in entities :
       LET value == native_value(coordinator_data, s) IN
       _native_value' =
         IF value.is_none THEN _native_value
         ELSE [_native_value EXCEPT ![s] = value]
  /\ coordinator_data' =
       IF Truthy(coordinator_data)
       THEN PyDict([k \in DOMAIN coordinator_data.items
                         \ {COORDINATOR_DATA_KEY_ENERGY} |->
                     coordinator_data.items[k]])
       ELSE coordinator_data
  /\ UNCHANGED << flow_vars, entry_model, phase, registered, platform, entities, _p1xx,
                  _connected, pc, data, device_info, energy_reply, abandoned,
                  cycle, connected_at_start, calls, outcome, failure,
                  data_cycle, coordinator_data_cycle, session_valid,
                  device_ok, _name >>

\* Home Assistant reads "native_value" of a sensor that was added.
sensor_native_value ==
  /\ \E s \in entities :
       LET value == native_value(coordinator_data, s) IN
       _native_value' =
         IF value.is_none THEN _native_value
         ELSE [_native_value EXCEPT ![s] = value]
  /\ UNCHANGED << accessor_frame, _name >>

\* The "device_info" property of the coordinator is read (the sensors read
\* it when they are built).
coordinator_device_info ==
  /\ phase \in {"first_refresh", "loaded"}
  /\ DeviceInfo(coordinator_data).is_none \in BOOLEAN
  /\ UNCHANGED << accessor_frame, sensor_fields >>

\* The "unique_id" property of the coordinator is read: it returns the
\* unique id of the config entry.
coordinator_unique_id ==
  /\ phase \in {"first_refresh", "loaded"}
  /\ UNCHANGED << accessor_frame, sensor_fields >>

Next ==
  \/ async_step_user
  \/ flow_getDeviceList_done
  \/ flow_handshake_done
  \/ flow_login_done
  \/ flow_getDeviceName_done
  \/ flow_getDeviceInfo_done
  \/ async_setup_entry
  \/ async_refresh
  \/ handshake_done
  \/ login_done
  \/ getDeviceInfo_done
  \/ getEnergyUsage_done
  \/ timeout
  \/ abandoned_job_ends
  \/ session_expires
  \/ device_recovers
  \/ sensor_async_setup_entry
  \/ async_unload_entry
  \/ sensor_available
  \/ sensor_name
  \/ sensor_native_value
  \/ coordinator_device_info
  \/ coordinator_unique_id

Spec == Init /\ [][Next]_vars

\* A cycle begins: the setup of the entry is tried, or the loaded entry's
\* coordinator is refreshed.
cycle_begins == async_setup_entry \/ async_refresh

\* The await of a job is over: the job has returned or raised, or the
\* cycle's timeout has cancelled the await; the cycle goes on to its next
\* await or ends.
await_ends ==
  /\ pc \in Operations
  /\ \E next \in (Operations \cup {"idle"}) \ {pc} : pc' = next

\* Cycles keep being scheduled (the interval timer refreshes a loaded entry,
\* and Home Assistant tries the setup of an entry again), and no await of a
\* cycle lasts forever (the job ends, or the timeout of ten seconds fires).
FairSpec == Spec /\ WF_vars(cycle_begins) /\ WF_pc(await_ends)

\* ---------------------------------------------------------- properties
Range(seq) == { seq[i] : i \in 1..Len(seq) }
Last(seq) == seq[Len(seq)]
IsPrefix(s, t) == Len(s) <= Len(t) /\ s = SubSeq(t, 1, Len(s))
CycleOver == pc = "idle" /\ cycle > 0

\* C1: a cycle in which any step fails (an operation raising, a payload
\* that does not decode, the timeout) ends with _connected = False and the
\* cached data empty, whatever was cached before.
C1_FailureClearsSessionAndData ==
  (CycleOver /\ failure # "none") =>
    /\ outcome = "UpdateFailed"
    /\ _connected = FALSE
    /\ coordinator_data = EmptyDict

\* A cycle that began connected, so with a snapshot cached, failed at the
\* decoding of the energy payload.
C1_Witness ==
  /\ CycleOver
  /\ failure = "energy_usage"
  /\ connected_at_start
  /\ coordinator_data = EmptyDict

\* C2: a cycle invokes handshake, and after it login, exactly when the
\* coordinator is disconnected at its start, which is exactly when its
\* previous cycle did not succeed; such a cycle reaches getDeviceInfo only
\* after both; a cycle that follows a successful one invokes neither.
C2_SessionSetUpOnlyWhenDisconnected ==
  (cycle > 0) =>
    /\ ("handshake" \in Range(calls)) <=> ~connected_at_start
    /\ ("login" \in Range(calls)) => ~connected_at_start
    /\ (pc # "idle") => (connected_at_start <=> outcome = "returned")
    /\ (~connected_at_start /\ "getDeviceInfo" \in Range(calls)) =>
         SubSeq(calls, 1, 3) = << "handshake", "login", "getDeviceInfo" >>
    /\ connected_at_start => calls[1] = "getDeviceInfo"

\* A successful cycle that followed a successful cycle and invoked neither
\* handshake nor login.
C2_Witness ==
  /\ CycleOver
  /\ outcome = "returned"
  /\ connected_at_start
  /\ calls = << "getDeviceInfo", "getEnergyUsage" >>

\* The operations of a cycle, in the order of the code.
ExpectedCalls(connected, p1xx) ==
  (IF connected THEN << >> ELSE << "handshake", "login" >>)
    \o << "getDeviceInfo" >>
    \o (IF p1xx = "P110" THEN << "getEnergyUsage" >> ELSE << >>)

\* C3: the operations of one cycle are invoked in the order handshake,
\* login, getDeviceInfo, getEnergyUsage (the first two only when
\* disconnected, the last only for a P110), each at most once, and the
\* operation that failed is the last one the cycle invoked.
C3_OperationsInOrderNoRetry ==
  (cycle > 0) =>
    /\ IsPrefix(calls, ExpectedCalls(connected_at_start, _p1xx))
    /\ (pc \in Operations) => Last(calls) = pc
    /\ (failure \in Operations) => Last(calls) = failure
    /\ (failure \in {"device_info", "nickname"}) => Last(calls) = "getDeviceInfo"
    /\ (failure = "energy_usage") => Last(calls) = "getEnergyUsage"

\* A cycle of a P110 that invoked all four operations and returned.
C3_Witness ==
  /\ CycleOver
  /\ outcome = "returned"
  /\ calls = << "handshake", "login", "getDeviceInfo", "getEnergyUsage" >>

\* C4: a coordinator built on a P100 session object never invokes
\* getEnergyUsage, in no cycle.
C4_NoEnergyQueryForP100 ==
  (cycle > 0 /\ _p1xx = "P100") => "getEnergyUsage" \notin Range(calls)

\* A P100 coordinator has finished a second cycle in a row with success.
C4_Witness ==
  /\ CycleOver
  /\ _p1xx = "P100"
  /\ connected_at_start
  /\ outcome = "returned"
  /\ "getEnergyUsage" \notin Range(calls)

\* The keys of a complete snapshot of a cycle of the session class p1xx.
SnapshotKeys(p1xx) ==
  {COORDINATOR_DATA_KEY_NAME, COORDINATOR_DATA_KEY_DEVICEINFO}
    \cup (IF p1xx = "P110" THEN {COORDINATOR_DATA_KEY_ENERGY} ELSE {})
HasIdentity(d) ==
  /\ Truthy(d)
  /\ COORDINATOR_DATA_KEY_DEVICEINFO \in DOMAIN d.items

\* C5, as the spec states it: for a P100, available is true whenever a
\* snapshot with identity data is cached and false when none is.
C5_AvailableFollowsIdentity ==
  (_p1xx = "P100" /\ coordinator_data # None) =>
    (available(coordinator_data) <=> HasIdentity(coordinator_data))

\* C5, amended: for a P100, available is false in every state, whether a
\* snapshot with identity data is cached or not: it asks for the energy
\* key, which a P100 snapshot never has.
C5_P100NeverAvailable ==
  (_p1xx = "P100" /\ coordinator_data # None) =>
    ~available(coordinator_data)

\* The sensor platform of a P100 entry was set up on a cached snapshot with
\* identity data, found both sensors unavailable and added none.
C5_Witness ==
  /\ _p1xx = "P100"
  /\ platform = "set_up"
  /\ HasIdentity(coordinator_data)
  /\ ~available(coordinator_data)
  /\ entities = {}

\* C6: after every successful cycle of a P100 that returns valid status,
\* available is false (for both sensors: they share the property), and the
\* cached snapshot holds the decoded nickname and the identity fields
\* (model, fw_ver among them) that getDeviceInfo returned.
C6_P100SnapshotKeepsIdentity ==
  (CycleOver /\ _p1xx = "P100" /\ outcome = "returned") =>
    /\ ~available(coordinator_data)
    /\ DOMAIN coordinator_data.items = SnapshotKeys("P100")
    /\ coordinator_data.items[COORDINATOR_DATA_KEY_DEVICEINFO]
         = device_info["result"]
    /\ coordinator_data.items[COORDINATOR_DATA_KEY_DEVICEINFO]["model"]
         = entry_model
    /\ coordinator_data.items[COORDINATOR_DATA_KEY_DEVICEINFO]["fw_ver"]
         = "1.0.7"
    /\ coordinator_data.items[COORDINATOR_DATA_KEY_NAME]
         = DecodeNickname(device_info["result"]["nickname"]).val

\* A P105 plug (a P100 session) finished a cycle with the nickname "Lamp".
C6_Witness ==
  /\ CycleOver
  /\ _p1xx = "P100"
  /\ entry_model = "P105"
  /\ outcome = "returned"
  /\ coordinator_data.items[COORDINATOR_DATA_KEY_NAME] = << 76, 97, 109, 112 >>

\* C7: in every state, also in the middle of a cycle, the cached data is
\* None, empty, or a complete snapshot all of whose fields were written by
\* one and the same cycle.
C7_SnapshotOfOneCycle ==
  (coordinator_data # None) =>
    \/ /\ coordinator_data = EmptyDict
       /\ coordinator_data_cycle = EmptyItems
    \/ /\ DOMAIN coordinator_data.items = SnapshotKeys(_p1xx)
       /\ DOMAIN coordinator_data_cycle = SnapshotKeys(_p1xx)
       /\ \E c \in 1..cycle :
            \A k \in SnapshotKeys(_p1xx) : coordinator_data_cycle[k] = c

\* A cycle awaits getEnergyUsage with the new nickname already in its local
\* dict, while the cached data still is the previous cycle's snapshot with
\* another nickname.
C7_Witness ==
  /\ pc = "getEnergyUsage"
  /\ Truthy(coordinator_data)
  /\ COORDINATOR_DATA_KEY_NAME \in DOMAIN data
  /\ data[COORDINATOR_DATA_KEY_NAME]
       # coordinator_data.items[COORDINATOR_DATA_KEY_NAME]
  /\ coordinator_data_cycle[COORDINATOR_DATA_KEY_NAME] < cycle

C9_NoStaleReadingAfterFailure ==
  (outcome = "UpdateFailed") =>
    /\ coordinator_data # None
    /\ ~available(coordinator_data)
    /\ TapoPlugEnergyTodaySensor_native_value(coordinator_data) = Absent
    /\ TapoPlugCurrentPowerConsumptionSensor_native_value(coordinator_data)
         = Absent

\* Both sensors were added after a success; a later cycle failed and the
\* cycle after that one is connected again and awaits getEnergyUsage.
C9_Witness ==
  /\ outcome = "UpdateFailed"
  /\ entities = SensorKinds
  /\ pc = "getEnergyUsage"
  /\ _connected
  /\ TapoPlugEnergyTodaySensor_native_value(coordinator_data) = Absent

\* C10: a cycle whose timeout fires while it awaits an operation is over
\* at once (it awaits no further operation), publishes nothing and ends
\* like a failed query: UpdateFailed, _connected = False, cached data empty.
C10_TimeoutIsAFailedCycle ==
  (failure = "timeout") =>
    /\ pc = "idle"
    /\ outcome = "UpdateFailed"
    /\ _connected = FALSE
    /\ coordinator_data = EmptyDict
    /\ data = EmptyItems

\* The timeout fired while a connected cycle awaited getEnergyUsage; the
\* abandoned job is still running.
C10_Witness ==
  /\ failure = "timeout"
  /\ connected_at_start
  /\ calls = << "getDeviceInfo", "getEnergyUsage" >>
  /\ abandoned = 1

\* C11: in every state, whatever is cached, native_value of either sensor
\* is absent exactly when no snapshot is cached or "available" is false, and
\* it is a value exactly when a snapshot with the energy field is cached.
C11_NativeValueAbsentOrValue ==
  \A s \in SensorKinds :
    LET returned == native_value(coordinator_data, s)
        no_snapshot == ~Truthy(coordinator_data)
        with_energy ==
          /\ Truthy(coordinator_data)
          /\ COORDINATOR_DATA_KEY_ENERGY \in DOMAIN coordinator_data.items
    IN
    /\ returned.is_none <=> (no_snapshot \/ ~available(coordinator_data))
    /\ ~returned.is_none <=> with_energy

\* A sensor that has returned a value returns None after a failed cycle.
C11_Witness ==
  \E s \in entities :
    /\ ~_native_value[s].is_none
    /\ coordinator_data = EmptyDict
    /\ native_value(coordinator_data, s).is_none

\* C12: when a cycle of a P110 has succeeded and the plug reported
\* today_energy = e and current_power = p, the energy sensor returns e
\* unchanged, the power sensor returns p / 1000 (1000 times the returned
\* value is p; 1500 gives 1.5 and 2500 gives 2.5), and "available" is true.
C12_ReadingsOfTheSnapshot ==
  (CycleOver /\ outcome = "returned" /\ IsP110(_p1xx)) =>
    LET today == native_value(coordinator_data, "energy_today")
        power == native_value(coordinator_data, "power")
        Reads(e, p) ==
          /\ ~today.is_none /\ today.value = e
          /\ ~power.is_none
          /\ 1000 * power.value.units + power.value.thousandths = p
          /\ power.value.thousandths \in 0 .. 999
    IN
    /\ available(coordinator_data)
    /\ energy_reply \in {"e120", "e7", "zero"}
    /\ energy_reply = "e120" =>
         Reads(120, 2500) /\ power.value = [units |-> 2, thousandths |-> 500]
    /\ energy_reply = "e7" =>
         Reads(7, 1500) /\ power.value = [units |-> 1, thousandths |-> 500]
    /\ energy_reply = "zero" => Reads(0, 0)

\* Both sensors have been read after a cycle that reported 7 and 1500.
C12_Witness ==
  /\ CycleOver /\ outcome = "returned" /\ energy_reply = "e7"
  /\ ~_native_value["energy_today"].is_none
  /\ _native_value["energy_today"].value = 7
  /\ ~_native_value["power"].is_none
  /\ _native_value["power"].value.units = 1
  /\ _native_value["power"].value.thousandths = 500

\* C13: _generate_name returns the template with the nickname of the cached
\* snapshot in place of its field ("Plug" gives "Plug:Energy today" and
\* "Plug:Power consumption") when a snapshot is cached, and None whenever
\* none is cached: before the first successful cycle and after a failed one.
C13_GeneratedNameFollowsSnapshot ==
  \A s \in SensorKinds :
    LET generated == _generate_name(coordinator_data, SensorNameTemplate(s))
        suffix ==
          IF s = "energy_today"
          THEN << 58, 69, 110, 101, 114, 103, 121, 32, 116, 111, 100, 97, 121 >>
          ELSE << 58, 80, 111, 119, 101, 114, 32, 99, 111, 110, 115, 117, 109,
                  112, 116, 105, 111, 110 >>
    IN
    /\ Truthy(coordinator_data) =>
         /\ ~generated.is_none
         /\ generated.value =
              coordinator_data.items[COORDINATOR_DATA_KEY_NAME] \o suffix
    /\ ~Truthy(coordinator_data) => generated.is_none
    /\ outcome = "none" => generated.is_none
    /\ (CycleOver /\ outcome = "UpdateFailed") => generated.is_none
    /\ (CycleOver /\ outcome = "returned") =>
         /\ ~generated.is_none
         /\ "result" \in DOMAIN device_info
         /\ device_info["result"]["nickname"] = EncodedNickname("Plug") =>
              generated.value = << 80, 108, 117, 103 >> \o suffix
         /\ device_info["result"]["nickname"] = EncodedNickname("Lamp") =>
              generated.value = << 76, 97, 109, 112 >> \o suffix

\* A sensor whose name was generated from a snapshot gets None after a
\* failed cycle.
C13_Witness ==
  \E s \in entities :
    /\ _name[s] = << 80, 108, 117, 103, 58, 69, 110, 101, 114, 103, 121, 32,
                     116, 111, 100, 97, 121 >>
    /\ CycleOver /\ outcome = "UpdateFailed"
    /\ _generate_name(coordinator_data, SensorNameTemplate(s)).is_none

\* C14: every cycle is all-or-nothing: it ends either by returning a complete
\* snapshot (nickname and identity, and the energy result for a P110), which
\* becomes the cached data, or by raising UpdateFailed; it never returns an
\* empty or partial dict as a success, and a failure of any step ends in
\* UpdateFailed and in nothing else.
C14_CycleAllOrNothing ==
  CycleOver =>
    \/ /\ outcome = "returned"
       /\ failure = "none"
       /\ coordinator_data.py = "dict"
       /\ DOMAIN coordinator_data.items = SnapshotKeys(_p1xx)
       /\ coordinator_data = PyDict(data)
    \/ /\ outcome = "UpdateFailed"
       /\ failure # "none"
       /\ coordinator_data = EmptyDict

\* The identity was gathered, the energy reply could not be used, and the
\* cycle raised UpdateFailed without returning the partial dict.
C14_Witness ==
  /\ CycleOver
  /\ outcome = "UpdateFailed"
  /\ failure = "energy_usage"
  /\ "result" \in DOMAIN device_info
  /\ coordinator_data = EmptyDict

\* C15: no failure is fatal. A cycle in which no step fails ends with the
\* session flag set and a snapshot cached, whatever failed before it; and
\* when cycles keep being scheduled (the entry was created) and the plug and
\* the network have stopped failing, the coordinator eventually has the
\* session flag set and
\* a snapshot cached, and from then on is found so between its cycles.
C15_NoFailureIsFatal ==
  /\ []((CycleOver /\ failure = "none") =>
         (_connected /\ Truthy(coordinator_data)))
  /\ (device_ok /\ flow_pc = "created") ~>
       [](pc = "idle" => (_connected /\ Truthy(coordinator_data)))

\* The plug has recovered, and a cycle that began without a session has
\* ended with a snapshot; a sensor still has the name that it generated
\* from an earlier snapshot, so a cycle has failed in between.
C15_Witness ==
  /\ device_ok
  /\ CycleOver /\ outcome = "returned"
  /\ ~connected_at_start
  /\ _connected /\ Truthy(coordinator_data)
  /\ \E s \in entities :
       /\ _name[s] # << >>
       /\ _name[s] # name(coordinator_data, s, _name[s])

\* C16: _connected is False when the coordinator is constructed; it goes
\* from False to True only in the step of a cycle in which the login has
\* returned after the handshake of the same cycle; it goes from True to
\* False only when a cycle fails; no other step (an accessor, the setup of
\* the sensors, the unload) changes it.
C16_SessionFlagTransitions ==
  /\ [](cycle = 0 => ~_connected)
  /\ [][ /\ (phase # "first_refresh" /\ phase' = "first_refresh") =>
              ~_connected'
         /\ (~_connected /\ _connected') =>
              /\ pc = "login"
              /\ calls = << "handshake", "login" >>
              /\ cycle' = cycle
              /\ pc' = "getDeviceInfo"
         /\ (_connected /\ ~_connected') =>
              \/ phase # "first_refresh" /\ phase' = "first_refresh"
              \/ /\ pc \in Operations
                 /\ pc' = "idle"
                 /\ outcome' = "UpdateFailed"
                 /\ failure' # "none"
    ]_vars

\* A cycle that began with the flag set has failed and cleared it.
C16_Witness ==
  /\ CycleOver
  /\ connected_at_start
  /\ outcome = "UpdateFailed"
  /\ ~_connected

\* C17: during the setup of an entry the coordinator is stored in hass.data
\* and the sensor platform is set up only after the first cycle of the
\* coordinator has succeeded; as long as no cycle of it has succeeded, the
\* setup ends not ready (to be tried again) and there is neither an entry in
\* hass.data nor a sensor entity.
C17_StoredOnlyAfterFirstSuccess ==
  /\ [](phase # "loaded" =>
         (~registered /\ platform = "none" /\ entities = {}))
  /\ [](outcome = "none" =>
         (~registered /\ platform = "none" /\ entities = {}))
  /\ [][ /\ (~registered /\ registered') =>
              /\ phase = "first_refresh"
              /\ pc \in Operations /\ pc' = "idle"
              /\ outcome' = "returned"
              /\ Truthy(coordinator_data')
         /\ (platform = "none" /\ platform' # "none") =>
              (registered' /\ outcome' = "returned")
         /\ (phase = "first_refresh" /\ outcome' = "UpdateFailed") =>
              /\ phase' = "setup_retry"
              /\ ~registered' /\ platform' = "none" /\ entities' = {}
    ]_vars

\* The first cycle has failed in two setups of the entry: the entry is to
\* be set up again, and nothing is stored.
C17_Witness ==
  /\ phase = "setup_retry"
  /\ cycle = 2
  /\ outcome = "UpdateFailed"
  /\ ~registered /\ platform = "none" /\ entities = {}

\* C18: a call of an accessor ("available", "name", "native_value" of either
\* sensor, "device_info" and "unique_id" of the coordinator) leaves the
\* coordinator's cached snapshot and _connected as they were and invokes no
\* operation of the device session, in every state in which it is called.
C18_AccessorsOnlyRead ==
  [][ ( \/ sensor_available
        \/ sensor_name
        \/ sensor_native_value
        \/ coordinator_device_info
        \/ coordinator_unique_id ) =>
      UNCHANGED << coordinator_data, _connected, pc, calls, abandoned,
                   session_valid, cycle >>
    ]_vars

\* Both "name" and "native_value" of a sensor have been read, and the
\* snapshot and the session are there while the next cycle is under way.
C18_Witness ==
  /\ \E s \in entities : _name[s] # << >> /\ ~_native_value[s].is_none
  /\ _connected
  /\ Truthy(coordinator_data)
  /\ pc = "getEnergyUsage"

\* C19: in every reachable state, also in the middle of a cycle, a
\* non-empty cached snapshot implies that _connected is True. The converse
\* need not hold: the flag is set while nothing is cached yet.
C19_SnapshotImpliesConnected ==
  Truthy(coordinator_data) => _connected

\* In the first cycle after a failure the login has returned and the flag
\* is set, while the cached data is still the empty dict.
C19_Witness ==
  /\ _connected
  /\ coordinator_data = EmptyDict
  /\ pc = "getDeviceInfo"
  /\ cycle > 1

\* The operations of the coordinator's device session that are executing:
\* the job that the cycle awaits, and the jobs that timed-out cycles of the
\* coordinator left running.
Executing == (IF pc \in Operations THEN 1 ELSE 0) + abandoned

\* C20: at most one operation of a coordinator's device session is
\* executing at any time, also in a cycle that starts after a cycle of the
\* coordinator has timed out while its job was still running on the
\* executor's worker.
C20_AtMostOneOperationExecuting == Executing <= 1

\* C21: the "name" property of a sensor never returns None: with a snapshot
\* cached it returns the template formatted with the current nickname and
\* stores it in self._name; with none cached it returns self._name as it
\* was, the empty string if no name was generated yet, so the name of an
\* earlier cycle stays visible after a failed cycle.
C21_NameIsRemembered ==
  /\ [](\A s \in SensorKinds :
          LET returned == name(coordinator_data, s, _name[s])
              suffix ==
                IF s = "energy_today"
                THEN << 58, 69, 110, 101, 114, 103, 121, 32, 116, 111, 100,
                        97, 121 >>
                ELSE << 58, 80, 111, 119, 101, 114, 32, 99, 111, 110, 115,
                        117, 109, 112, 116, 105, 111, 110 >>
          IN
          /\ returned \in Seq(Nat)
          /\ Truthy(coordinator_data) =>
               returned =
                 coordinator_data.items[COORDINATOR_DATA_KEY_NAME] \o suffix
          /\ ~Truthy(coordinator_data) => returned = _name[s])
  /\ [][ \A s \in SensorKinds :
           _name'[s] # _name[s] =>
             \/ /\ s \in entities
                /\ Truthy(coordinator_data)
                /\ _name'[s] = name(coordinator_data, s, _name[s])
                /\ UNCHANGED coordinator_data
             \/ /\ platform' # platform
                /\ _name'[s] = << >>
    ]_vars

\* After a failed cycle the power sensor still has the name that it
\* generated from the snapshot of an earlier cycle, and "name" returns it.
C21_Witness ==
  /\ CycleOver /\ outcome = "UpdateFailed"
  /\ "power" \in entities
  /\ _name["power"] =
       << 76, 97, 109, 112, 58, 80, 111, 119, 101, 114, 32, 99, 111, 110,
          115, 117, 109, 112, 116, 105, 111, 110 >>
  /\ name(coordinator_data, "power", _name["power"]) = _name["power"]

\* C22: the config flow creates an entry only if the host has at least 3
\* characters, the username is not empty, and handshake, login,
\* getDeviceName and getDeviceInfo have succeeded in this order; the first
\* step that fails ends the validation with its own error (InvalidHost,
\* InvalidUsername, CannotConnect for handshake, InvalidAuth for login,
\* CannotCommunicate for either query), no later step is invoked and the
\* form is shown again; a failure of getDeviceList never keeps the entry
\* from being created.
C22_EntryOnlyAfterValidation ==
  LET all_calls == << "getDeviceList", "handshake", "login", "getDeviceName",
                      "getDeviceInfo" >>
      Ended(step, raised, error, n) ==
        flow_failure = step =>
          /\ flow_raised = raised
          /\ errors = error
          /\ flow_calls = SubSeq(all_calls, 1, n)
  IN
  /\ flow_pc = "created" =>
       /\ Len(user_input.host) >= 3
       /\ Len(user_input.username) >= 1
       /\ flow_calls = all_calls
       /\ flow_failure = "none" /\ flow_raised = "none"
       /\ errors = EmptyItems
       /\ entry_model \in Models
  /\ flow_pc # "created" =>
       (entry_model = "none" /\ entry_title = << >> /\ phase = "not_loaded")
  /\ flow_failure # "none" =>
       /\ flow_pc = "form"
       /\ flow_failure \in {"host", "username", "handshake", "login",
                             "getDeviceName", "getDeviceInfo"}
       /\ flow_failure = "host" <=> Len(user_input.host) < 3
       /\ flow_failure = "username" =>
            (Len(user_input.host) >= 3 /\ Len(user_input.username) < 1)
       /\ Ended("host", "InvalidHost", (CONF_HOST :> "invalid_host"), 0)
       /\ Ended("username", "InvalidUsername",
                (CONF_USERNAME :> "invalid_username"), 0)
       /\ Ended("handshake", "CannotConnect",
                (CONF_HOST :> "cannot_connect"), 2)
       /\ Ended("login", "InvalidAuth", (CONF_USERNAME :> "invalid_auth"), 3)
       /\ Ended("getDeviceName", "CannotCommunicate",
                (CONF_HOST :> "cannot_communicate"), 4)
       /\ Ended("getDeviceInfo", "CannotCommunicate",
                (CONF_HOST :> "cannot_communicate"), 5)
  /\ flow_pc \in FlowOperations =>
       /\ Len(user_input.host) >= 3
       /\ Len(user_input.username) >= 1
       /\ flow_failure = "none"
       /\ Last(flow_calls) = flow_pc
       /\ IsPrefix(flow_calls, all_calls)

\* The entry was created, for a P110, although getDeviceList had raised.
C22_Witness ==
  /\ flow_pc = "created"
  /\ flow_list_failed
  /\ entry_model = "P110"
  /\ entry_title = << "P110", " ", "Plug" >>

====
